---- MODULE Spec2Model ----
(***************************************************************************)
(* PicoCoin node (pico-cli.py): the inbound gossip dispatcher of           *)
(* CoreServer / MiningServer and the mining loop of MiningServer, as       *)
(* cooperative asyncio tasks that interleave at their await points.        *)
(* The chain store, the miner and the gossip network live in core.py and   *)
(* miner.py; they are modelled from their documented contract.             *)
(***************************************************************************)
EXTENDS Integers, Sequences, FiniteSets, Bags, TLC

VARIABLES
    mining,        \* --mining flag: the node is a MiningServer
    peers,         \* self.net: the peer membership
    blocks,        \* self.chain.blocks (a block's key is its hash)
    head,          \* self.chain.hash: headHash
    cache,         \* MiningServer.trans_cache
    block,         \* MiningServer.block: the current template
    mpc,           \* position of the serve_mining task
    mchk,          \* serve_mining: result of check_block (line 205)
    madded,        \* serve_mining: result of add_block (line 213)
    reward_trans,  \* serve_mining: local reward_trans (line 207)
    h,             \* one inbound handler task per peer connection
    sent,          \* bag of the messages handed to net.send
    netfail,       \* a peer send failed while the mining task broadcast the
                   \* block it is handling
    chainDisk,     \* content of blockchain.json
    peersDisk,     \* content of peers.json
    nin,           \* number of inbound messages dispatched so far
    net            \* the other nodes of the gossip network, when modelled

vars == <<mining, peers, blocks, head, cache, block, mpc, mchk, madded,
          reward_trans, h, sent, netfail, chainDisk, peersDisk, nin, net>>

----------------------------------------------------------------------------
(* Bounds of the model *)

MaxInbound == 2
MaxBlocks == 3
MaxAnnounce == 2

(* Parameters of the modelled proof-of-work and reward policy *)

Difficulty == 2
Target == 1
RewardAmount == 5

----------------------------------------------------------------------------
(* Ledger entities *)

Null == <<>>

Me == "me"
Conns == {"p1", "p2"}

\* the connections that deliver messages in Spec
Serving == {"p1"}

NoTx == [from |-> "none", to |-> "none",
         act |-> [kind |-> "none", amount |-> 0, block |-> Null],
         sign |-> "none"]

TxPay == [from |-> "p1", to |-> Me,
          act |-> [kind |-> "pay", amount |-> 1, block |-> Null],
          sign |-> "p1"]

\* the transaction of the --trans option (line 262), signed or not
TxLocal(signed) ==
    [from |-> Me, to |-> "p1",
     act |-> [kind |-> "pay", amount |-> 3, block |-> Null],
     sign |-> IF signed THEN Me ELSE "none"]

TxBad == [from |-> "p2", to |-> Me,
          act |-> [kind |-> "pay", amount |-> 2, block |-> Null],
          sign |-> "none"]

NoBlock == [prev |-> Null, trans |-> <<>>, nonce |-> 0, solver |-> "none"]

\* Block.dict_hash: digest of (previousHash, transactions, proof); the digest
\* is collision free, so it is the canonical encoding itself.
dict_hash(b) == <<b.prev, b.trans, b.nonce, b.solver>>

RECURSIVE Height(_)
Height(hh) == IF hh = Null THEN 0 ELSE 1 + Height(hh[1])

\* numeric interpretation of the digest, compared with the difficulty target
DigestNum(b) == (b.nonce + Len(b.trans) + Height(b.prev)) % Difficulty

PowOK(b) == DigestNum(b) < Target

TransValid(t, b) ==
    IF t.act.kind = "reward"
    THEN t.from = "none" /\ t.to = b.solver
    ELSE t.from # "none" /\ t.sign = t.from

----------------------------------------------------------------------------
(* Chain Store *)

Known(bs, hh) == \E b \in bs : dict_hash(b) = hh

check_block(bs, b) ==
    IF Known(bs, dict_hash(b)) THEN "DUP"
    ELSE IF ~PowOK(b) THEN "POW"
    ELSE IF b.prev # Null /\ ~Known(bs, b.prev) THEN "PREV"
    ELSE IF \E i \in 1..Len(b.trans) : ~TransValid(b.trans[i], b) THEN "TRANS"
    ELSE "OK"

\* add_block: the store after append, and whether it changed
add_block(bs, hd, b) ==
    IF check_block(bs, b) = "OK"
    THEN [blocks |-> bs \cup {b},
          head |-> IF Height(dict_hash(b)) > Height(hd) THEN dict_hash(b) ELSE hd,
          changed |-> TRUE]
    ELSE [blocks |-> bs, head |-> hd, changed |-> FALSE]

RECURSIVE IsAncestor(_, _)
IsAncestor(a, x) == x # Null /\ (x[1] = a \/ IsAncestor(a, x[1]))

SetMax(S) == CHOOSE x \in S : \A y \in S : y <= x

get_block_confirms(bs, b) ==
    IF b \notin bs THEN 0
    ELSE SetMax({0} \cup {Height(dict_hash(c)) - Height(dict_hash(b)) :
                    c \in {d \in bs : IsAncestor(dict_hash(b), dict_hash(d))}})

new_block(hd, solver) ==
    [prev |-> hd, trans |-> <<>>, nonce |-> 0, solver |-> solver]

add_trans(b, t) == [b EXCEPT !.trans = Append(@, t)]

reward == RewardAmount

----------------------------------------------------------------------------
(* Gossip Network *)

PeerSetOf(list) == {list[i] : i \in 1..Len(list)}

\* update_peers: the membership after the merge, and whether it changed
update_peers(ps, list) ==
    [peers |-> PeerSetOf(list), changed |-> PeerSetOf(list) # ps]

----------------------------------------------------------------------------
(* Inbound messages *)

NoMsg == [keys |-> {}, peers |-> <<>>, block |-> NoBlock, trans |-> NoTx]

TruthyKeyOnly(m, key) == key \in m.keys

\* data.get(key): the key is present and its payload is not empty
Truthy(m, key) ==
    /\ key \in m.keys
    /\ CASE key = "peers" -> m.peers # <<>>
         [] key = "block" -> m.block # NoBlock
         [] key = "trans" -> m.trans # NoTx

PeerLists == {<<>>, <<"p1">>, <<"p1", "p2">>}

GhostHash == <<Null, <<>>, 1, "ghost">>

\* the nonce that solves (or, with ok = FALSE, fails to solve) a peer's block
PeerNonce(prev, txs, ok) ==
    CHOOSE n \in 1..Difficulty :
        PowOK([prev |-> prev, trans |-> txs, nonce |-> n, solver |-> "p1"]) = ok

PeerBlock(prev, txs, ok, solver) ==
    [prev |-> prev, trans |-> txs, nonce |-> PeerNonce(prev, txs, ok),
     solver |-> solver]

\* blocks a peer may deliver: a successor of the head, a competitor of the
\* head, blocks that break one consensus rule each, and blocks this node
\* already holds or has broadcast
InboundBlocks ==
    {PeerBlock(head, <<>>, TRUE, "p1"), PeerBlock(head, <<>>, FALSE, "p1"),
     PeerBlock(head, <<TxBad>>, TRUE, "p1"),
     PeerBlock(GhostHash, <<>>, TRUE, "p1")}
    \cup (IF head = Null THEN {} ELSE {PeerBlock(head[1], <<>>, TRUE, "p2")})
    \cup blocks
    \cup {m.block : m \in {x \in BagToSet(sent) : x.kind = "block"}}

PeersMsg(l) == [NoMsg EXCEPT !.keys = {"peers"}, !.peers = l]
BlockMsg(b) == [NoMsg EXCEPT !.keys = {"block"}, !.block = b]
TransMsg(t) == [NoMsg EXCEPT !.keys = {"trans"}, !.trans = t]

\* every key present, every payload empty
EmptyMsg == [NoMsg EXCEPT !.keys = {"peers", "block", "trans"}]

InboundMsgs ==
    {EmptyMsg}
    \cup {PeersMsg(l) : l \in PeerLists}
    \cup {BlockMsg(b) : b \in InboundBlocks}
    \cup {TransMsg(t) : t \in {TxPay, TxBad}}
    \cup {[keys |-> {"peers", "block", "trans"}, peers |-> <<"p1">>,
           block |-> PeerBlock(head, <<>>, TRUE, "p1"), trans |-> TxPay]}

Out(kind) == [kind |-> kind, peers |-> <<>>, block |-> NoBlock, trans |-> NoTx]

BlockOut(b) == [Out("block") EXCEPT !.block = b]
TransOut(t) == [Out("trans") EXCEPT !.trans = t]
PeersOut(l) == [Out("peers") EXCEPT !.peers = l]

----------------------------------------------------------------------------
(* The node state the handlers act on, passed as a record *)

St == [peers |-> peers, blocks |-> blocks, head |-> head, cache |-> cache,
       h |-> h, block |-> block, mpc |-> mpc, mchk |-> mchk,
       madded |-> madded, reward_trans |-> reward_trans, sent |-> sent]

Apply(st) ==
    /\ peers' = st.peers
    /\ blocks' = st.blocks
    /\ head' = st.head
    /\ cache' = st.cache
    /\ h' = st.h
    /\ block' = st.block
    /\ mpc' = st.mpc
    /\ mchk' = st.mchk
    /\ madded' = st.madded
    /\ reward_trans' = st.reward_trans
    /\ sent' = st.sent

Idle == [pc |-> "idle", msg |-> NoMsg, chk |-> "none", added |-> FALSE]

\* MiningServer.cache_trans
cache_trans(st, t) == [st EXCEPT !.cache = Append(@, t)]

\* net.send(message) is called: the message leaves for the peers while the
\* caller is suspended
send(st, m) == [st EXCEPT !.sent = @ (+) SetToBag({m})]

DispatchTransAnyNode(st, c) ==
    LET m == st.h[c].msg
        done == [st EXCEPT !.h[c] = Idle]
    IN  IF Truthy(m, "trans") THEN cache_trans(done, m.trans) ELSE done

\* MiningServer.serve_dispatch after super().serve_dispatch returned;
\* CoreServer.serve_dispatch ends here
DispatchTrans(st, c) ==
    LET m == st.h[c].msg
        done == [st EXCEPT !.h[c] = Idle]
    IN  IF mining /\ Truthy(m, "trans") THEN cache_trans(done, m.trans) ELSE done

AppendInboundHeadOnly(st, c) ==
    LET b == st.h[c].msg.block
        r == add_block(st.blocks, st.head, b)
    IN  IF r.changed /\ b.prev = st.head
        THEN [st EXCEPT !.blocks = r.blocks, !.head = r.head,
                        !.h[c].added = TRUE, !.h[c].pc = "block_persist"]
        ELSE DispatchTrans([st EXCEPT !.h[c].added = FALSE], c)

AppendInboundPersistAlways(st, c) ==
    LET r == add_block(st.blocks, st.head, st.h[c].msg.block)
    IN  [st EXCEPT !.blocks = r.blocks, !.head = r.head,
                   !.h[c].added = r.changed, !.h[c].pc = "block_persist"]

\* add_block_hlr from line 133: append, then persist if the store changed
AppendInbound(st, c) ==
    LET r == add_block(st.blocks, st.head, st.h[c].msg.block)
    IN  IF r.changed
        THEN [st EXCEPT !.blocks = r.blocks, !.head = r.head,
                        !.h[c].added = TRUE, !.h[c].pc = "block_persist"]
        ELSE DispatchTrans([st EXCEPT !.h[c].added = FALSE], c)

RelayBlockAlways(chk) == TRUE

\* the condition of line 130
RelayBlock(chk) == chk = "OK"

\* serve_dispatch at the 'block' key, add_block_hlr up to its first await
DispatchBlock(st, c) ==
    LET m == st.h[c].msg
        chk == check_block(st.blocks, m.block)
        st1 == [st EXCEPT !.h[c].chk = chk]
    IN  IF Truthy(m, "block")
        THEN IF RelayBlock(chk)
             THEN send([st1 EXCEPT !.h[c].pc = "block_send"], BlockOut(m.block))
             ELSE AppendInbound(st1, c)
        ELSE DispatchTrans(st, c)

PeersUpdatedAlways(changed) == TRUE

\* the condition of line 121
PeersUpdated(changed) == changed

\* serve_dispatch at the 'peers' key, update_peers_hlr up to its first await
DispatchPeers(st, c) ==
    LET m == st.h[c].msg
        r == update_peers(st.peers, m.peers)
    IN  IF Truthy(m, "peers")
        THEN IF PeersUpdated(r.changed)
             THEN send([st EXCEPT !.peers = r.peers, !.h[c].pc = "peers_send"],
                       PeersOut(m.peers))
             ELSE DispatchBlock([st EXCEPT !.peers = r.peers], c)
        ELSE DispatchBlock(st, c)

----------------------------------------------------------------------------
(* Inbound handler task of connection c *)

Receive(c, m) ==
    /\ h[c].pc = "idle"
    /\ mpc \notin {"boot", "start"}
    /\ nin < MaxInbound
    /\ nin' = nin + 1
    /\ Apply(DispatchPeers([St EXCEPT !.h[c] = [Idle EXCEPT !.msg = m]], c))
    /\ UNCHANGED <<net, mining, netfail, chainDisk, peersDisk>>

\* line 124 completes
PeersSendDone(c) ==
    /\ h[c].pc = "peers_send"
    /\ h' = [h EXCEPT ![c].pc = "peers_persist"]
    /\ UNCHANGED <<net, mining, peers, blocks, head, cache, block, mpc, mchk,
                   madded, reward_trans, sent, netfail, chainDisk, peersDisk,
                   nin>>

\* line 125 completes; the dispatcher goes on to the next key
PeersPersistDone(c) ==
    /\ h[c].pc = "peers_persist"
    /\ peersDisk' = peers
    /\ Apply(DispatchBlock(St, c))
    /\ UNCHANGED <<net, mining, netfail, chainDisk, nin>>

\* line 131 completes, line 133 runs
BlockSendDone(c) ==
    /\ h[c].pc = "block_send"
    /\ Apply(AppendInbound(St, c))
    /\ UNCHANGED <<net, mining, netfail, chainDisk, peersDisk, nin>>

\* line 134 completes
BlockPersistDone(c) ==
    /\ h[c].pc = "block_persist"
    /\ chainDisk' = [blocks |-> blocks, head |-> head]
    /\ Apply(DispatchTrans(St, c))
    /\ UNCHANGED <<net, mining, netfail, peersDisk, nin>>

----------------------------------------------------------------------------
(* Mining task: MiningServer.serve_mining *)

RECURSIVE MoveAllReversed(_, _)
MoveAllReversed(b, txs) ==
    IF txs = <<>> THEN b
    ELSE add_trans(MoveAllReversed(b, Tail(txs)), Head(txs))

RECURSIVE MoveAll(_, _)
\* the loop of lines 180-181
MoveAll(b, txs) ==
    IF txs = <<>> THEN b ELSE MoveAll(add_trans(b, Head(txs)), Tail(txs))

\* the loop condition of line 173
KeepPolling(confirms) == confirms # 0

update_blockKeepCache(st) ==
    IF KeepPolling(get_block_confirms(st.blocks, st.block))
       \/ Cardinality(st.blocks) >= MaxBlocks
    THEN [st EXCEPT !.mpc = "update"]
    ELSE [st EXCEPT !.block = MoveAll(new_block(st.head, Me), st.cache),
                    !.mpc = "work"]

\* update_block, then set_block and the call of work() (lines 197-201);
\* with the chain at MaxBlocks the task parks before a new template
update_block(st) ==
    IF KeepPolling(get_block_confirms(st.blocks, st.block))
       \/ Cardinality(st.blocks) >= MaxBlocks
    THEN [st EXCEPT !.mpc = "update"]
    ELSE [st EXCEPT !.block = MoveAll(new_block(st.head, Me), st.cache),
                    !.cache = <<>>,
                    !.mpc = "work"]

MineAppendIfHead(st) ==
    LET r == add_block(st.blocks, st.head, st.block)
    IN  IF r.changed /\ st.head = st.block.prev
        THEN [st EXCEPT !.blocks = r.blocks, !.head = r.head,
                        !.madded = TRUE, !.mpc = "persist"]
        ELSE update_block([st EXCEPT !.madded = FALSE])

MineAppendSkipped(st) == update_block([st EXCEPT !.madded = FALSE])

\* lines 213-214, then the next iteration up to its first await
MineAppend(st) ==
    LET r == add_block(st.blocks, st.head, st.block)
    IN  IF r.changed
        THEN [st EXCEPT !.blocks = r.blocks, !.head = r.head,
                        !.madded = TRUE, !.mpc = "persist"]
        ELSE update_block([st EXCEPT !.madded = FALSE])

\* lines 206-207
RewardTrans(b) ==
    [from |-> "none", to |-> b.solver,
     act |-> [kind |-> "reward", amount |-> reward, block |-> dict_hash(b)],
     sign |-> "none"]

SolvedOKAlways(chk) == TRUE

\* the condition of line 205
SolvedOK(chk) == chk = "OK"

\* work() has returned: lines 202-210 up to the first await
Solved(st) ==
    LET chk == check_block(st.blocks, st.block)
        st1 == [st EXCEPT !.mchk = chk]
        rt == RewardTrans(st.block)
    IN  IF SolvedOK(chk)
        THEN send(cache_trans([st1 EXCEPT !.reward_trans = rt,
                                          !.mpc = "send_trans"], rt),
                  TransOut(rt))
        ELSE MineAppend(st1)

WorkAttemptFollowHead(st) ==
    LET b == [st.block EXCEPT !.nonce = @ + 1, !.prev = st.head]
        st1 == [st EXCEPT !.block = b]
    IN  IF PowOK(b) THEN Solved(st1) ELSE st1

\* one attempt of Miner.work()
WorkAttempt(st) ==
    LET b == [st.block EXCEPT !.nonce = @ + 1]
        st1 == [st EXCEPT !.block = b]
    IN  IF PowOK(b) THEN Solved(st1) ELSE st1

\* the task starts, or resumes from the sleep of line 174
UpdateStep ==
    /\ mpc \in {"start", "update"}
    /\ KeepPolling(get_block_confirms(blocks, block))
       \/ Cardinality(blocks) < MaxBlocks
    /\ Apply(update_block(St))
    /\ UNCHANGED <<net, mining, netfail, chainDisk, peersDisk, nin>>

WorkStep ==
    /\ mpc = "work"
    /\ Apply(WorkAttempt(St))
    /\ UNCHANGED <<net, mining, netfail, chainDisk, peersDisk, nin>>

\* line 210 completes (with or without a failed peer send), line 211 is called
SendTransDone(fail) ==
    /\ mpc = "send_trans"
    /\ netfail' = fail
    /\ Apply(send([St EXCEPT !.mpc = "send_block"], BlockOut(block)))
    /\ UNCHANGED <<net, mining, chainDisk, peersDisk, nin>>

SendBlockDoneAbort(fail) ==
    /\ mpc = "send_block"
    /\ netfail' = (MineAppend(St).mpc = "persist" /\ (netfail \/ fail))
    /\ IF fail THEN Apply([St EXCEPT !.mpc = "dead"]) ELSE Apply(MineAppend(St))
    /\ UNCHANGED <<net, mining, chainDisk, peersDisk, nin>>

\* line 211 completes (with or without a failed peer send), line 213 runs
SendBlockDone(fail) ==
    /\ mpc = "send_block"
    /\ netfail' = (MineAppend(St).mpc = "persist" /\ (netfail \/ fail))
    /\ Apply(MineAppend(St))
    /\ UNCHANGED <<net, mining, chainDisk, peersDisk, nin>>

\* line 214 completes, the next iteration starts
MinePersistDone ==
    /\ mpc = "persist"
    /\ chainDisk' = [blocks |-> blocks, head |-> head]
    /\ netfail' = FALSE
    /\ Apply(update_block(St))
    /\ UNCHANGED <<net, mining, peersDisk, nin>>

----------------------------------------------------------------------------
(* The node *)

\* the node alone: no other node is modelled
NoNet == [peers |-> <<>>, chan |-> <<>>, pc |-> <<>>, msg |-> <<>>,
          disk |-> <<>>, inj |-> 0]

NodeInit ==
    /\ mining \in BOOLEAN
    /\ peers = {"p1", "p2"}
    /\ blocks = {}
    /\ head = Null
    /\ cache = <<>>
    /\ block = NoBlock
    /\ mpc = IF mining THEN "start" ELSE "off"
    /\ mchk = "none"
    /\ madded = FALSE
    /\ reward_trans = NoTx
    /\ h = [c \in Conns |-> Idle]
    /\ sent = EmptyBag
    /\ netfail = FALSE
    /\ chainDisk = [blocks |-> {}, head |-> Null]
    /\ peersDisk = {"p1", "p2"}
    /\ nin = 0

Init == NodeInit /\ net = NoNet

Next ==
    \/ \E c \in Serving : \E m \in InboundMsgs : Receive(c, m)
    \/ \E c \in Serving : PeersSendDone(c)
    \/ \E c \in Serving : PeersPersistDone(c)
    \/ \E c \in Serving : BlockSendDone(c)
    \/ \E c \in Serving : BlockPersistDone(c)
    \/ UpdateStep
    \/ WorkStep
    \/ \E fail \in BOOLEAN : SendTransDone(fail)
    \/ \E fail \in BOOLEAN : SendBlockDone(fail)
    \/ MinePersistDone

Spec == Init /\ [][Next]_vars

----------------------------------------------------------------------------
(* Steps of the handlers and of the mining loop, as the claims name them *)

\* dispatching m reaches add_block_hlr in the step that receives it
StartsBlock(m) ==
    /\ Truthy(m, "block")
    /\ ~(Truthy(m, "peers") /\ PeerSetOf(m.peers) # peers)

OneMore(m) == sent (+) SetToBag({m})

\* sent' holds the same broadcasts of the given kind as sent
SameSent(kind) ==
    /\ \A x \in BagToSet(sent') :
          x.kind = kind => BagIn(x, sent) /\ CopiesIn(x, sent') = CopiesIn(x, sent)
    /\ \A x \in BagToSet(sent) : x.kind = kind => BagIn(x, sent')

----------------------------------------------------------------------------
\* C1: an inbound block is relayed only if check_block accepts it at receipt;
\* the chain is persisted if and only if add_block reports a change; a
\* rejected block is not relayed and leaves the block map and headHash
\* unchanged.
EntersBlockSend(c) == h[c].pc # "block_send" /\ h'[c].pc = "block_send"

MinerSendsBlock == mpc = "send_trans" /\ mpc' = "send_block"

MinerAppends == mpc = "send_block" /\ mpc' # "send_block"

NothingOfBlocks ==
    /\ SameSent("block")
    /\ blocks' = blocks
    /\ head' = head
    /\ chainDisk' = chainDisk

C1_Step ==
    /\ \A c \in Conns :
        \* add_block_hlr relays: the block was accepted at this very step
        /\ EntersBlockSend(c) =>
              /\ h[c].pc \in {"idle", "peers_persist"}
              /\ check_block(blocks, h'[c].msg.block) = "OK"
              /\ h'[c].chk = "OK"
              /\ sent' = OneMore(BlockOut(h'[c].msg.block))
              /\ blocks' = blocks /\ head' = head /\ chainDisk' = chainDisk
        \* a dispatch that does not relay: the block, if any, was rejected
        /\ h[c].pc \in {"idle", "peers_persist"} /\ h'[c] # h[c]
              /\ h'[c].pc # "block_send" => NothingOfBlocks
        /\ BlockSendDone(c) =>
              /\ h[c].chk = "OK"
              /\ (h'[c].pc = "block_persist")
                    <=> add_block(blocks, head, h[c].msg.block).changed
              /\ blocks' = add_block(blocks, head, h[c].msg.block).blocks
              /\ chainDisk' = chainDisk
              /\ SameSent("block")
        /\ BlockPersistDone(c) =>
              /\ h[c].added
              /\ chainDisk' = [blocks |-> blocks, head |-> head]
    \* a receipt that leaves every handler as it was has no effect on blocks
    /\ nin' # nin /\ h' = h => NothingOfBlocks
    \* blocks are broadcast, stored and persisted by these steps only
    /\ ~SameSent("block") => MinerSendsBlock \/ \E c \in Conns : EntersBlockSend(c)
    /\ blocks' # blocks => MinerAppends \/ \E c \in Conns : BlockSendDone(c)
    /\ chainDisk' # chainDisk =>
          mpc = "persist" \/ \E c \in Conns : BlockPersistDone(c)

C1_RelayAndPersist == [][C1_Step]_vars

C1_Witness ==
    \E c \in Conns :
        /\ h[c].pc = "block_persist"
        /\ h[c].msg.block \in blocks
        /\ BagIn(BlockOut(h[c].msg.block), sent)
        /\ h[c].msg.block.solver = "p1"

----------------------------------------------------------------------------
\* C2: delivering a block that is already in the chain store, to an inbound
\* handler or to the mining loop's own append, leaves the block map and
\* headHash unchanged, reports no change, persists nothing and relays nothing.
C2_Again(c) ==
    /\ blocks' = blocks
    /\ head' = head
    /\ chainDisk' = chainDisk
    /\ SameSent("block")
    /\ h'[c].pc \notin {"block_send", "block_persist"}

C2_Step ==
    /\ \A c \in Conns :
        /\ nin' # nin => C2_Again(c) \/ \A m \in InboundMsgs :
              m.block \in blocks /\ StartsBlock(m) => ~Receive(c, m)
        /\ PeersPersistDone(c) /\ Truthy(h[c].msg, "block")
              /\ h[c].msg.block \in blocks => C2_Again(c)
        /\ BlockSendDone(c) /\ h[c].msg.block \in blocks => C2_Again(c)
    /\ mpc = "send_block" /\ mpc' # "send_block" /\ block \in blocks
          => /\ blocks' = blocks
             /\ head' = head
             /\ ~madded'
             /\ mpc' # "persist"
             /\ chainDisk' = chainDisk
             /\ sent' = sent

C2_Idempotent == [][C2_Step]_vars

C2_Witness ==
    /\ mpc = "update"
    /\ mchk = "OK"
    /\ ~madded
    /\ block \in blocks
    /\ block \in chainDisk.blocks

----------------------------------------------------------------------------
\* C3: an inbound peers list is rebroadcast and persisted if and only if
\* update_peers reports a change; a list equal to the current membership
\* changes nothing, is not rebroadcast and is not persisted.
C3_Step ==
    \A c \in Conns :
        /\ nin' # nin => \A m \in InboundMsgs :
              Truthy(m, "peers") /\ Receive(c, m) =>
                  IF PeerSetOf(m.peers) # peers
                  THEN /\ peers' = PeerSetOf(m.peers)
                       /\ sent' = OneMore(PeersOut(m.peers))
                       /\ h'[c].pc = "peers_send"
                       /\ peersDisk' = peersDisk
                  ELSE /\ peers' = peers
                       /\ SameSent("peers")
                       /\ peersDisk' = peersDisk
                       /\ h'[c].pc \notin {"peers_send", "peers_persist"}
        /\ PeersSendDone(c) => h'[c].pc = "peers_persist" /\ peers' = peers
        /\ PeersPersistDone(c) => peersDisk' = peers
        /\ peersDisk' # peersDisk => \E d \in Conns : h[d].pc = "peers_persist"

C3_PeersIffChanged == [][C3_Step]_vars

C3_Witness ==
    /\ peers = {"p1"}
    /\ peersDisk = {"p1"}
    /\ CopiesIn(PeersOut(<<"p1">>), sent) = 1
    /\ nin = 2

----------------------------------------------------------------------------
\* C4: when work() returns, a Reward transaction (no sender, to the block's
\* solver, amount reward(), for the solved block's hash) is cached and
\* broadcast, and then the block is broadcast, if and only if check_block
\* accepts the solved block; otherwise no Reward is cached and nothing is
\* broadcast.
C4_Reward(b) ==
    [from |-> "none", to |-> b.solver,
     act |-> [kind |-> "reward", amount |-> RewardAmount,
              block |-> dict_hash(b)],
     sign |-> "none"]

InSeq(x, q) == \E i \in 1..Len(q) : q[i] = x

C4_Step ==
    /\ mpc = "work" /\ WorkStep /\ PowOK([block EXCEPT !.nonce = @ + 1]) =>
          LET b == [block EXCEPT !.nonce = @ + 1]
          IN  IF check_block(blocks, b) = "OK"
              THEN /\ cache' = Append(cache, C4_Reward(b))
                   /\ sent' = OneMore(TransOut(C4_Reward(b)))
                   /\ mpc' = "send_trans"
                   /\ block' = b
              ELSE /\ sent' = sent
                   /\ ~InSeq(C4_Reward(b), cache')
                   /\ ~InSeq(C4_Reward(b), block'.trans)
                   /\ mpc' \notin {"send_trans", "send_block"}
    /\ mpc = "send_trans" /\ mpc' # "send_trans" =>
          /\ sent' = OneMore(BlockOut(block))
          /\ mpc' = "send_block"
          /\ cache' = cache
          /\ block' = block
    /\ mpc' = "send_trans" /\ mpc # "send_trans" => mpc = "work"

C4_RewardIffAccepted == [][C4_Step]_vars

C4_Witness ==
    /\ mpc = "send_block"
    /\ InSeq(C4_Reward(block), cache)
    /\ BagIn(TransOut(C4_Reward(block)), sent)
    /\ BagIn(BlockOut(block), sent)
    /\ block.solver = Me

----------------------------------------------------------------------------
\* C5: once the broadcast of the solved block returns, with or without a
\* failed peer send, the mining loop appends the block and keeps running.
C5_Step ==
    mpc = "send_block" /\ mpc' # "send_block" =>
        /\ block \in blocks'
        /\ mpc' \in {"persist", "update", "work"}
        /\ madded' <=> block \notin blocks

----------------------------------------------------------------------------
\* the mining task installs a fresh template in this step
NewTemplateStep ==
    /\ mpc' = "work"
    /\ block'.nonce = 0
    /\ ~(mpc = "work" /\ block' = block)

\* C6: update_block requests a fresh template only when there is no previous
\* block or the previous block has at least one confirmation; while the
\* previous block has zero confirmations it keeps polling.
C6_WaitsForConfirmation ==
    [][NewTemplateStep =>
          block = NoBlock \/ get_block_confirms(blocks, block) >= 1]_vars

----------------------------------------------------------------------------
\* C7: a fresh template has previousHash = headHash and exactly the cached
\* transactions in cache order, and the cache is empty afterwards; a
\* transaction received from a peer goes to the cache and leaves the template
\* alone, so it is neither dropped nor in both.
C7_Step ==
    /\ NewTemplateStep =>
          /\ block'.prev = head
          /\ head' = head
          /\ block'.trans = cache
          /\ block'.solver = Me
          /\ cache' = <<>>
    /\ nin' # nin => \A c \in Conns : \A m \in InboundMsgs :
          mining /\ Truthy(m, "trans") /\ h'[c].pc = "idle"
              /\ Receive(c, m)
              => /\ cache' = Append(cache, m.trans)
                 /\ block' = block

C7_MoveAndClear == [][C7_Step]_vars

C7_Witness ==
    /\ mpc = "work"
    /\ block.nonce = 0
    /\ Len(block.trans) = 2
    /\ block.trans[1].act.kind = "reward"
    /\ block.trans[2] = TxPay
    /\ block.prev = head
    /\ cache = <<>>

----------------------------------------------------------------------------
\* C8: an inbound trans message appends that one transaction to the end of a
\* mining node's cache and changes neither chain nor peer set; on a
\* non-mining node it changes no node state.
C8_Step ==
    nin' # nin => \A c \in Conns : \A m \in InboundMsgs :
        m.keys = {"trans"} /\ Truthy(m, "trans") /\ Receive(c, m) =>
            /\ UNCHANGED <<blocks, head, peers, block, sent, chainDisk,
                           peersDisk, h, mpc>>
            /\ IF mining THEN cache' = Append(cache, m.trans)
                         ELSE cache' = cache

C8_TransDispatch == [][C8_Step]_vars

C8_Witness ==
    /\ mining
    /\ Len(cache) = 2
    /\ cache[1].act.kind = "reward"
    /\ cache[2] = TxBad
    /\ nin = 1

----------------------------------------------------------------------------
\* the mining task handles the block whose previousHash is null
GenesisSolved ==
    /\ mpc = "work"
    /\ block.prev = Null
    /\ WorkStep
    /\ PowOK([block EXCEPT !.nonce = @ + 1])

GenesisAppend ==
    /\ mpc = "send_block"
    /\ mpc' # "send_block"
    /\ block.prev = Null

FirstTemplate ==
    /\ mpc = "start"
    /\ mpc' # "start"

----------------------------------------------------------------------------
\* C10: a block whose previousHash is that of a block already in the store is
\* rejected as duplicate only if that very block is in the store; a solved,
\* well-formed block with another hash is accepted, relayed and stored as a
\* competing branch.
Competes(b) == \E a \in blocks : a.prev = b.prev

WellFormed(b) ==
    /\ PowOK(b)
    /\ \A i \in 1..Len(b.trans) : TransValid(b.trans[i], b)

C10_Start(c, b) ==
    /\ check_block(blocks, b) = "DUP" => b \in blocks
    /\ b \notin blocks /\ WellFormed(b) =>
          /\ check_block(blocks, b) = "OK"
          /\ sent' = OneMore(BlockOut(b))
          /\ h'[c].pc = "block_send"

C10_Step ==
    \A c \in Conns :
        /\ nin' # nin => \A m \in InboundMsgs :
              StartsBlock(m) /\ Competes(m.block)
                  => C10_Start(c, m.block) \/ ~Receive(c, m)
        /\ PeersPersistDone(c) /\ Truthy(h[c].msg, "block")
              /\ Competes(h[c].msg.block) => C10_Start(c, h[c].msg.block)
        /\ BlockSendDone(c) /\ Competes(h[c].msg.block) =>
              /\ h[c].msg.block \in blocks'
              /\ h[c].msg.block \notin blocks => h'[c].pc = "block_persist"

C10_CompetingBlocks == [][C10_Step]_vars

C10_Witness ==
    \E a \in blocks : \E b \in blocks :
        /\ a # b
        /\ a.prev = b.prev
        /\ head = dict_hash(a)
        /\ BagIn(BlockOut(b), sent)
        /\ b \in chainDisk.blocks

----------------------------------------------------------------------------
(* Gossip network: several nodes, each running update_peers_hlr on the     *)
(* peers messages it receives                                              *)

Nodes == {"n1", "n2"}

\* the lists a starting node announces (update_self_peer, line 110); "n3" is
\* an address on which no node listens
Announcements == {<<"n1", "n2">>, <<"n1", "n2", "n3">>, <<"n2", "n1", "n3">>}

RECURSIVE Deliver(_, _, _)
\* Net.send by node n: the list is queued at every other node of the set
Deliver(chan, to, l) ==
    IF to = {} THEN chan
    ELSE LET m == CHOOSE x \in to : TRUE
         IN  Deliver([chan EXCEPT ![m] = Append(@, l)], to \ {m}, l)

\* an announcement reaches node n
Announce(n, l) ==
    /\ net.inj < MaxAnnounce
    /\ net' = [net EXCEPT !.inj = @ + 1, !.chan[n] = Append(@, l)]
    /\ UNCHANGED <<mining, peers, blocks, head, cache, block, mpc, mchk,
                   madded, reward_trans, h, sent, netfail, chainDisk,
                   peersDisk, nin>>

\* node n dispatches its next peers message: update_peers_hlr up to line 124
GossipReceive(n) ==
    /\ net.pc[n] = "idle"
    /\ net.chan[n] # <<>>
    /\ LET l == Head(net.chan[n])
           r == update_peers(net.peers[n], l)
           rest == [net EXCEPT !.chan[n] = Tail(@)]
       IN  net' = IF l # <<>> /\ PeersUpdated(r.changed)
                  THEN [rest EXCEPT
                          !.peers[n] = r.peers,
                          !.msg[n] = l,
                          !.pc[n] = "peers_send",
                          !.chan = Deliver(rest.chan,
                                           (r.peers \cap Nodes) \ {n}, l)]
                  ELSE rest
    /\ UNCHANGED <<mining, peers, blocks, head, cache, block, mpc, mchk,
                   madded, reward_trans, h, sent, netfail, chainDisk,
                   peersDisk, nin>>

\* line 124 completes at node n
GossipSendDone(n) ==
    /\ net.pc[n] = "peers_send"
    /\ net' = [net EXCEPT !.pc[n] = "peers_persist"]
    /\ UNCHANGED <<mining, peers, blocks, head, cache, block, mpc, mchk,
                   madded, reward_trans, h, sent, netfail, chainDisk,
                   peersDisk, nin>>

\* line 125 completes at node n
GossipPersistDone(n) ==
    /\ net.pc[n] = "peers_persist"
    /\ net' = [net EXCEPT !.pc[n] = "idle", !.disk[n] = net.peers[n]]
    /\ UNCHANGED <<mining, peers, blocks, head, cache, block, mpc, mchk,
                   madded, reward_trans, h, sent, netfail, chainDisk,
                   peersDisk, nin>>

GossipInit ==
    /\ NodeInit
    /\ ~mining
    /\ net = [peers |-> [n \in Nodes |-> Nodes],
              chan |-> [n \in Nodes |-> <<>>],
              pc |-> [n \in Nodes |-> "idle"],
              msg |-> [n \in Nodes |-> <<>>],
              disk |-> [n \in Nodes |-> Nodes],
              inj |-> 0]

GossipNext ==
    \/ \E n \in Nodes : \E l \in Announcements : Announce(n, l)
    \/ \E n \in Nodes : GossipReceive(n)
    \/ \E n \in Nodes : GossipSendDone(n)
    \/ \E n \in Nodes : GossipPersistDone(n)

\* every message is eventually delivered and every await returns
GossipFair ==
    \A n \in Nodes :
        /\ WF_vars(GossipReceive(n))
        /\ WF_vars(GossipSendDone(n))
        /\ WF_vars(GossipPersistDone(n))

SpecGossip == GossipInit /\ [][GossipNext]_vars /\ GossipFair

----------------------------------------------------------------------------
\* C11: after finitely many peer announcements, under fair delivery, the
\* gossip quiesces (no message in flight, no node rebroadcasting) and all
\* nodes hold the same peer set.
GossipQuiet ==
    \A n \in Nodes : net.chan[n] = <<>> /\ net.pc[n] = "idle"

GossipAgree == \A n \in Nodes : \A m \in Nodes : net.peers[n] = net.peers[m]

C11_EventuallyConsistent == <>[](GossipQuiet /\ GossipAgree)

----------------------------------------------------------------------------
(* The node under fair scheduling: the event loop resumes every task that  *)
(* can run, every broadcast and every file write returns, and every        *)
(* attempt of the proof-of-work search is made                             *)

Fair ==
    /\ \A c \in Serving :
          /\ WF_vars(PeersSendDone(c))
          /\ WF_vars(PeersPersistDone(c))
          /\ WF_vars(BlockSendDone(c))
          /\ WF_vars(BlockPersistDone(c))
    /\ WF_vars(UpdateStep)
    /\ WF_vars(WorkStep)
    /\ WF_vars(\E fail \in BOOLEAN : SendTransDone(fail))
    /\ WF_vars(\E fail \in BOOLEAN : SendBlockDone(fail))
    /\ WF_vars(MinePersistDone)

SpecFair == Init /\ [][Next]_vars /\ Fair

----------------------------------------------------------------------------
\* C12: under fair scheduling the mining loop does not stay in the
\* confirmation poll for ever: after each solved block it eventually installs
\* a new template and mines again, whatever inbound blocks arrive (the model
\* stops creating templates once the store holds MaxBlocks blocks).
AfterSolved == mpc \in {"send_trans", "send_block", "persist", "update"}

C12_MiningProgress ==
    AfterSolved ~> (mpc = "work" \/ Cardinality(blocks) >= MaxBlocks)

----------------------------------------------------------------------------
\* work() returns in this step
WorkReturns ==
    /\ mpc = "work"
    /\ WorkStep
    /\ PowOK([block EXCEPT !.nonce = @ + 1])

\* C13: from set_block until work() returns the template keeps its
\* previousHash and its transactions, also when inbound blocks move headHash;
\* a transaction received meanwhile goes to the cache and not into the
\* template being mined.
C13_Step ==
    /\ mpc = "work" /\ ~WorkReturns =>
          /\ mpc' = "work"
          /\ block'.prev = block.prev
          /\ block'.trans = block.trans
    /\ WorkReturns /\ mpc' = "send_trans" =>
          /\ block'.prev = block.prev
          /\ block'.trans = block.trans
    /\ nin' # nin /\ mpc = "work" => \A c \in Conns : \A m \in InboundMsgs :
          mining /\ Truthy(m, "trans") /\ h'[c].pc = "idle" /\ Receive(c, m)
              => /\ cache' = Append(cache, m.trans)
                 /\ block' = block

C13_StalenessWindow == [][C13_Step]_vars

C13_Witness ==
    /\ mpc = "work"
    /\ block.nonce > 0
    /\ head # block.prev
    /\ InSeq(TxPay, cache)
    /\ ~InSeq(TxPay, block.trans)

----------------------------------------------------------------------------
\* positions of the rewards of this node in the transactions of b
OwnRewards(b) ==
    {i \in 1..Len(b.trans) :
        b.trans[i].act.kind = "reward" /\ b.trans[i].to = Me}

\* the block the mining task handled last was accepted, so its Reward was
\* cached
Rewarded == mpc \in {"send_block", "persist", "update"} /\ mchk = "OK"

\* C14: the Reward synthesized for a solved block B is not in B; the next
\* template of the node holds it exactly once, and a template holds no Reward
\* of this node but that of the block handled just before it.
C14_Step ==
    /\ NewTemplateStep =>
          /\ \A i \in OwnRewards(block') : block'.trans[i] = C4_Reward(block)
          /\ Cardinality(OwnRewards(block')) = IF Rewarded THEN 1 ELSE 0
    /\ ~InSeq(C4_Reward(block'), block'.trans)

C14_RewardInNextOnly == [][C14_Step]_vars

C14_Witness ==
    /\ mpc = "work"
    /\ Height(block.prev) = 2
    /\ \E b \in blocks :
          /\ dict_hash(b) = block.prev
          /\ b.solver = Me
          /\ block.trans = <<C4_Reward(b)>>
          /\ Cardinality(OwnRewards(b)) = 1

----------------------------------------------------------------------------
(* A mining node started with or without the --trans option *)

\* CLI.make_trans: the transaction is signed and broadcast if the user
\* answers y
CLI_make_trans(st, ans) ==
    IF ans THEN send(st, TransOut(TxLocal(TRUE))) ELSE st

\* MiningServer.make_trans
make_trans(st, ans) == cache_trans(CLI_make_trans(st, ans), TxLocal(ans))

\* lines 252-263 with --trans, then serve_forever
MakeTrans(ans) ==
    /\ mpc = "boot"
    /\ Apply(make_trans([St EXCEPT !.mpc = "start"], ans))
    /\ UNCHANGED <<net, mining, netfail, chainDisk, peersDisk, nin>>

\* no --trans option: serve_forever at once
NoTrans ==
    /\ mpc = "boot"
    /\ mpc' = "start"
    /\ UNCHANGED <<net, mining, peers, blocks, head, cache, block, mchk,
                   madded, reward_trans, h, sent, netfail, chainDisk,
                   peersDisk, nin>>

StartInit ==
    /\ mining = TRUE
    /\ peers = {"p1", "p2"}
    /\ blocks = {}
    /\ head = Null
    /\ cache = <<>>
    /\ block = NoBlock
    /\ mpc = "boot"
    /\ mchk = "none"
    /\ madded = FALSE
    /\ reward_trans = NoTx
    /\ h = [c \in Conns |-> Idle]
    /\ sent = EmptyBag
    /\ netfail = FALSE
    /\ chainDisk = [blocks |-> {}, head |-> Null]
    /\ peersDisk = {"p1", "p2"}
    /\ nin = 0
    /\ net = NoNet

StartNext ==
    \/ \E ans \in BOOLEAN : MakeTrans(ans)
    \/ NoTrans
    \/ Next

SpecStart == StartInit /\ [][StartNext]_vars

----------------------------------------------------------------------------
\* C15: a transaction made locally is in the cache of a mining node, and in a
\* block template, only if it is signed; declined at the prompt it is not
\* cached.
LocalSigned(q) == \A i \in 1..Len(q) : q[i].from = Me => q[i].sign = Me

C15_CachedOnlySigned == LocalSigned(cache) /\ LocalSigned(block.trans)

----------------------------------------------------------------------------
\* every Reward this node has broadcast is for a block of the store, or for
\* the block the mining task is still broadcasting
RewardHasBlock ==
    \A m \in BagToSet(sent) :
        m.kind = "trans" /\ m.trans.act.kind = "reward" =>
            \/ Known(blocks, m.trans.act.block)
            \/ /\ mpc \in {"send_trans", "send_block"}
               /\ dict_hash(block) = m.trans.act.block

\* C16 as stated: the append that follows the broadcasts of the Reward and of
\* the solved block succeeds under every interleaving with the inbound
\* dispatcher.
C16_AppendSucceeds ==
    [][MinerAppends => madded' /\ block \in blocks']_vars

\* C16 amended: at the end of the iteration that broadcast the Reward of B, B
\* is in the chain store; the append of line 213 adds it and is persisted,
\* unless the inbound dispatcher has stored B meanwhile, and then it reports
\* no change.
C16_Step ==
    /\ MinerAppends =>
          /\ BagIn(TransOut(C4_Reward(block)), sent)
          /\ block \in blocks'
          /\ madded' <=> block \notin blocks
          /\ madded' => blocks' = blocks \cup {block} /\ mpc' = "persist"
          /\ ~madded' => blocks' = blocks /\ chainDisk' = chainDisk
    /\ RewardHasBlock'

C16_BlockStored == [][C16_Step]_vars

C16_Witness ==
    /\ mpc = "work"
    /\ mchk = "OK"
    /\ ~madded
    /\ \E b \in blocks :
          /\ b.solver = Me
          /\ block.prev # dict_hash(b)
          /\ InSeq(C4_Reward(b), block.trans)
          /\ BagIn(TransOut(C4_Reward(b)), sent)

----------------------------------------------------------------------------
(* The node with an inbound handler on each of its peer connections *)

NextTwo ==
    \/ \E c \in Conns : \E m \in InboundMsgs : Receive(c, m)
    \/ \E c \in Conns : PeersSendDone(c)
    \/ \E c \in Conns : PeersPersistDone(c)
    \/ \E c \in Conns : BlockSendDone(c)
    \/ \E c \in Conns : BlockPersistDone(c)
    \/ UpdateStep
    \/ WorkStep
    \/ \E fail \in BOOLEAN : SendTransDone(fail)
    \/ \E fail \in BOOLEAN : SendBlockDone(fail)
    \/ MinePersistDone

SpecTwo == Init /\ [][NextTwo]_vars

----------------------------------------------------------------------------
\* C17: a node broadcasts each distinct block at most once, under every
\* interleaving of the inbound handlers of different peer connections.
C17_RelayedOnce ==
    \A m \in BagToSet(sent) : m.kind = "block" => CopiesIn(m, sent) <= 1

----------------------------------------------------------------------------
\* the transactions waiting in the cache or in the current template
Pending ==
    {cache[i] : i \in 1..Len(cache)} \cup {block.trans[i] : i \in 1..Len(block.trans)}

InChain(t, bs) == \E b \in bs : InSeq(t, b.trans)

\* C18: a transaction that is in the cache or in the template stays in the
\* cache or in the template until it is in a block of the chain store, also
\* when a solved block is rejected and the node moves on to a new template.
C18_NoTransLost ==
    [][\A t \in Pending : t \in Pending' \/ InChain(t, blocks')]_vars

----------------------------------------------------------------------------
\* serve_dispatch starts no handler of the peers key
NoPeersHandled(c) ==
    /\ peers' = peers
    /\ peersDisk' = peersDisk
    /\ SameSent("peers")
    /\ h'[c].pc \notin {"peers_send", "peers_persist"}

\* serve_dispatch starts no handler of the block key
NoBlockHandled(c) ==
    /\ NothingOfBlocks
    /\ h'[c].pc \notin {"block_send", "block_persist"}

\* the handler of connection c has finished the block key of message m
BlockKeyDone(m) ==
    Truthy(m, "block") =>
        m.block \in blocks' \/ check_block(blocks, m.block) # "OK"

\* C19: a key that is absent or has an empty payload starts no handler (an
\* empty peers list leaves the peer set, the broadcasts and peers.json
\* alone); the keys of one message are handled in the order peers, block,
\* trans.
C19_Step ==
    \A c \in Conns :
        \* a step that handles a key is not the receipt of a message without it
        /\ nin' # nin =>
              /\ NoPeersHandled(c) \/ \A m \in InboundMsgs :
                    ~Truthy(m, "peers") => ~Receive(c, m)
              /\ NoBlockHandled(c) \/ \A m \in InboundMsgs :
                    ~Truthy(m, "block") => ~Receive(c, m)
              /\ cache' = cache \/ \A m \in InboundMsgs :
                    ~Truthy(m, "trans") => ~Receive(c, m)
        /\ PeersPersistDone(c) /\ ~Truthy(h[c].msg, "block") => NoBlockHandled(c)
        /\ (PeersPersistDone(c) \/ BlockSendDone(c) \/ BlockPersistDone(c))
              /\ ~Truthy(h[c].msg, "trans") => cache' = cache
        \* order: the block key starts after the peers key is done
        /\ EntersBlockSend(c) /\ Truthy(h'[c].msg, "peers") =>
              /\ peers' = PeerSetOf(h'[c].msg.peers)
              /\ peersDisk' = peers' \/ h[c].pc = "idle"
        \* order: the trans key is handled last
        /\ h'[c] # h[c] /\ cache' # cache =>
              /\ h'[c].pc = "idle"
              /\ \/ cache' = Append(cache, h[c].msg.trans) /\ BlockKeyDone(h[c].msg)
                 \/ h[c].pc = "idle"
    /\ peers' = {} => peers = {}

C19_EmptyKeysAndOrder == [][C19_Step]_vars

C19_Witness ==
    /\ mining
    /\ nin = 1
    /\ peers = {"p1"}
    /\ peersDisk = {"p1"}
    /\ \E b \in chainDisk.blocks : b.solver = "p1"
    /\ InSeq(TxPay, cache) \/ InSeq(TxPay, block.trans)
    /\ \A c \in Conns : h[c].pc = "idle"

====
